---- MODULE Spec2Model ----
(***************************************************************************)
(* Model of two facilities of Weblate:                                     *)
(*   - the import_project management command                               *)
(*     (weblate/trans/management/commands/import_project.py);              *)
(*   - the add-on configuration forms (weblate/addons/forms.py), of which  *)
(*     the discovery form carries the preview/confirm logic.               *)
(*                                                                         *)
(* Strings are sequences of one-character strings, so that slicing,        *)
(* replacing, slugifying and regular expression matching are computed and  *)
(* not assumed.  A regular expression source is a sequence of atoms: one   *)
(* character each, except for the constructs the code inserts as a whole   *)
(* ("(?P<name>", "(?P=language)", "[[WILDCARD]]", the "\Z(?ms)" tail).     *)
(***************************************************************************)
EXTENDS Integers, Sequences, FiniteSets, TLC

None == "None"

\* ------------------------------------------------------------------------
\* Bounds of the model
\* ------------------------------------------------------------------------
\* A file mask of the mask specification is built from at most MaxPieces
\* pieces out of "**", "*", "/", "a", "?".
MaxPieces == 4
\* A name or language token substituted into a mask has at most MaxTokLen
\* characters.
MaxTokLen == 1

\* ------------------------------------------------------------------------
\* Strings
\* ------------------------------------------------------------------------
SeqsUpTo(S, n) == UNION {[1..k -> S] : k \in 0..n}

Min(a, b) == IF a < b THEN a ELSE b

\* s[:n] of Python, n >= 0
Prefix(s, n) == SubSeq(s, 1, Min(Len(s), n))

\* s[n:] of Python (0-based n)
Suffix(s, n) == SubSeq(s, n + 1, Len(s))

StartsWith(s, p) == Len(p) <= Len(s) /\ SubSeq(s, 1, Len(p)) = p

\* sub in s
Contains(s, sub) == \E i \in 0..(Len(s) - Len(sub)) : StartsWith(Suffix(s, i), sub)

\* str.replace(old, new, count): leftmost non-overlapping occurrences, all of
\* them when count is negative.
RECURSIVE Replace(_, _, _, _)
Replace(s, old, new, count) ==
    IF count = 0 \/ Len(s) < Len(old) THEN s
    ELSE IF StartsWith(s, old)
         THEN new \o Replace(Suffix(s, Len(old)), old, new, count - 1)
         ELSE <<s[1]>> \o Replace(Tail(s), old, new, count)

\* str.count(sub): number of non-overlapping occurrences
RECURSIVE Count(_, _)
Count(s, sub) ==
    IF Len(s) < Len(sub) THEN 0
    ELSE IF StartsWith(s, sub) THEN 1 + Count(Suffix(s, Len(sub)), sub)
         ELSE Count(Tail(s), sub)

RECURSIVE Concat(_)
Concat(ss) == IF ss = <<>> THEN <<>> ELSE Head(ss) \o Concat(Tail(ss))

Letters == {"a", "b", "c", "d", "e", "g", "l", "n", "o", "q", "s", "x", "z", "A", "B"}
Digits == {"0", "1", "2", "3", "4", "5", "6", "7", "8", "9"}
Alnum == Letters \cup Digits

\* ------------------------------------------------------------------------
\* The pattern translator
\* ------------------------------------------------------------------------
\* re.escape of one character
ReEscape(c) == IF c \in Alnum THEN <<c>> ELSE <<"\\", c>>

\* fnmatch.translate, as called by match_regexp: "*" gives ".*", "?" gives
\* ".", any other character is escaped, and the pattern is closed by the
\* end-of-string tail.
RECURSIVE TranslateBody(_)
TranslateBody(pat) ==
    IF pat = <<>> THEN <<>>
    ELSE (CASE Head(pat) = "*" -> <<".", "*">>
            [] Head(pat) = "?" -> <<".">>
            [] OTHER -> ReEscape(Head(pat))) \o TranslateBody(Tail(pat))

Translate(pat) == TranslateBody(pat) \o <<"\\Z(?ms)">>

DotStar == <<".", "*">>
Wildcard == <<"[[WILDCARD]]">>

\* Source of the regular expression match_regexp derives from the mask.
MaskRegexpSource_NoCount(mask) ==
    LET m0 == Translate(mask)
        m1 == Replace(m0, DotStar \o DotStar, <<"(?P<name>">> \o Wildcard \o <<")">>, -1)
        m2 == Replace(m1, DotStar, <<"(?P<language>">> \o Wildcard \o <<")">>, -1)
        m3 == Replace(m2, DotStar, <<"(?P=language)">>, -1)
    IN  Replace(m3, Wildcard, DotStar, -1)

MaskRegexpSource(mask) ==
    LET m0 == Translate(mask)
        m1 == Replace(m0, DotStar \o DotStar, <<"(?P<name>">> \o Wildcard \o <<")">>, -1)
        m2 == Replace(m1, DotStar, <<"(?P<language>">> \o Wildcard \o <<")">>, 1)
        m3 == Replace(m2, DotStar, <<"(?P=language)">>, -1)
    IN  Replace(m3, Wildcard, DotStar, -1)

\* ------------------------------------------------------------------------
\* Regular expressions: re.compile and re.match
\* ------------------------------------------------------------------------
GroupOpen == {"(?P<name>", "(?P<language>", "(?P<component>"}

GroupName(atom) ==
    CASE atom = "(?P<name>" -> "name"
      [] atom = "(?P<language>" -> "language"
      [] OTHER -> "component"

\* The tokens of a regular expression source; an "error" token stands for a
\* construct the parser refuses.
RECURSIVE ParseRe(_)
ParseRe(a) ==
    IF a = <<>> THEN <<>>
    ELSE LET h == Head(a) IN
      CASE h = "\\" ->
             IF Len(a) >= 2
             THEN <<[k |-> "lit", c |-> a[2]]>> \o ParseRe(Suffix(a, 2))
             ELSE <<[k |-> "error", c |-> h]>>
        [] h = "." ->
             IF Len(a) >= 2 /\ a[2] = "*"
             THEN <<[k |-> "star", c |-> ""]>> \o ParseRe(Suffix(a, 2))
             ELSE <<[k |-> "any", c |-> ""]>> \o ParseRe(Tail(a))
        [] h \in GroupOpen ->
             IF Len(a) >= 4 /\ a[2] = "." /\ a[3] = "*" /\ a[4] = ")"
             THEN <<[k |-> "group", c |-> GroupName(h)]>> \o ParseRe(Suffix(a, 4))
             ELSE <<[k |-> "error", c |-> h]>>
        [] h = "(?P=language)" ->
             <<[k |-> "backref", c |-> "language"]>> \o ParseRe(Tail(a))
        [] h = "\\Z(?ms)" ->
             <<[k |-> "end", c |-> ""]>> \o ParseRe(Tail(a))
        [] h \in {"(", ")", "*", "[[WILDCARD]]"} ->
             <<[k |-> "error", c |-> h]>>
        [] OTHER ->
             <<[k |-> "lit", c |-> h]>> \o ParseRe(Tail(a))

GroupsOf(toks) == {toks[i].c : i \in {j \in DOMAIN toks : toks[j].k = "group"}}

\* re.compile: fails (re.error) on a construct the parser refuses, on a group
\* name defined twice and on a reference to a group not yet defined.
Compile(source) ==
    LET toks == ParseRe(source)
        idx == DOMAIN toks
        bad == \/ \E i \in idx : toks[i].k = "error"
               \/ \E i, j \in idx : /\ i < j
                                     /\ toks[i].k = "group" /\ toks[j].k = "group"
                                     /\ toks[i].c = toks[j].c
               \/ \E j \in idx : /\ toks[j].k = "backref"
                                  /\ ~\E i \in 1..(j - 1) : /\ toks[i].k = "group"
                                                             /\ toks[i].c = toks[j].c
    IN  IF bad THEN [ok |-> FALSE, toks |-> <<>>, groupindex |-> {}]
        ELSE [ok |-> TRUE, toks |-> toks, groupindex |-> GroupsOf(toks)]

NoMatch == [ok |-> FALSE, name |-> None, language |-> None]

\* re.match by backtracking: a ".*" (plain or as a group) is greedy, it takes
\* the longest stretch for which the rest of the pattern still matches.
RECURSIVE MatchAt(_, _, _, _)
RECURSIVE TryLen(_, _, _, _, _)
MatchAt(toks, s, p, env) ==
    IF toks = <<>> THEN [ok |-> TRUE, name |-> env.name, language |-> env.language]
    ELSE LET t == Head(toks) IN
      CASE t.k = "lit" ->
             IF p <= Len(s) /\ s[p] = t.c THEN MatchAt(Tail(toks), s, p + 1, env)
             ELSE NoMatch
        [] t.k = "any" ->
             IF p <= Len(s) THEN MatchAt(Tail(toks), s, p + 1, env) ELSE NoMatch
        [] t.k = "end" ->
             IF p = Len(s) + 1 THEN MatchAt(Tail(toks), s, p, env) ELSE NoMatch
        [] t.k = "backref" ->
             IF env[t.c] # None /\ StartsWith(Suffix(s, p - 1), env[t.c])
             THEN MatchAt(Tail(toks), s, p + Len(env[t.c]), env)
             ELSE NoMatch
        [] OTHER -> TryLen(toks, s, p, env, Len(s) - p + 1)

TryLen(toks, s, p, env, n) ==
    IF n < 0 THEN NoMatch
    ELSE LET t == Head(toks)
             env2 == IF t.k = "group" /\ t.c \in DOMAIN env
                     THEN [env EXCEPT ![t.c] = SubSeq(s, p, p + n - 1)]
                     ELSE env
             r == MatchAt(Tail(toks), s, p + n, env2)
         IN  IF r.ok THEN r ELSE TryLen(toks, s, p, env, n - 1)

ReMatch(re, s) == MatchAt(re.toks, s, 1, [name |-> None, language |-> None])

\* The (name, language) pair get_name returns for a path; both are None when
\* the path does not match.
GetName(re, path) ==
    LET matches == ReMatch(re, path)
    IN  IF ~matches.ok THEN [name |-> None, language |-> None]
        ELSE [name |-> matches.name, language |-> matches.language]

\* The mask test of parse_options: TRUE when the mask is accepted.
MaskOk(mask) ==
    /\ Contains(mask, <<"*", "*">>)
    /\ Contains(Replace(mask, <<"*", "*">>, <<>>, -1), <<"*">>)

\* ------------------------------------------------------------------------
\* State of the mask specification
\* ------------------------------------------------------------------------
VARIABLES filemask, mpc, mask_regexp, name_tok, lang_tok, got_name

mvars == <<filemask, mpc, mask_regexp, name_tok, lang_tok, got_name>>

\* State of the form specification: whether the form is bound, the submitted
\* data, the position of the request, cleaned_data and the errors of the
\* form, the crispy layout, and the calls addon.configure has received.
VARIABLES is_bound, fdata, fpc, cleaned_data, ferrors, layout, configured

fvars == <<is_bound, fdata, fpc, cleaned_data, ferrors, layout, configured>>

\* State of the import command:
\*   options             the arguments of the run
\*   components, before  the components of the project in the store, now and
\*                       when the run started
\*   files               the translation files of the checkout in use
\*   pc, error           the position of the run and the message it died with
\*   workdir             the temporary checkout directory: "none" (never
\*                       made), "tmp" (in place), "renamed", "removed"
\*   component_re        the compiled --component-regexp
\*   matches, match      the matches still to process, the one last processed
\*   sharedrepo          the repository the remaining components refer to
\*   trace               the calls made to the store, the file system and the
\*                       version control system, in order
\*   run, previous       whether the command is in its first run or is being
\*                       run again, and what the run before left: the files
\*                       of its checkout, the components, how it ended
VARIABLES options, components, before, files, pc, error, workdir,
          component_re, matches, match, sharedrepo, trace, run, previous

ivars == <<options, components, before, files, pc, error, workdir,
           component_re, matches, match, sharedrepo, trace, run, previous>>

vars == <<mvars, fvars, ivars>>

Pieces == {<<"*", "*">>, <<"*">>, <<"/">>, <<"a">>, <<"?">>}
Masks == {Concat(ps) : ps \in SeqsUpTo(Pieces, MaxPieces)}
TokChars == {"a", "/"}
Tokens == SeqsUpTo(TokChars, MaxTokLen)

NoRegexp == [ok |-> FALSE, toks |-> <<>>, groupindex |-> {}]
NoName == [name |-> None, language |-> None]

\* The path a mask generates: the name for "**", the language for every "*".
PathOf(mask, name, language) ==
    Replace(Replace(mask, <<"*", "*">>, name, -1), <<"*">>, language, -1)

NoRepo == [link |-> FALSE, project |-> "", slug |-> <<>>]

\* no run before this one
NoPrevious == [files |-> {}, components |-> {}, pc |-> "none"]

ImportIdle ==
    /\ options = None
    /\ components = {}
    /\ before = {}
    /\ files = {}
    /\ pc = "idle"
    /\ error = ""
    /\ workdir = "none"
    /\ component_re = NoRegexp
    /\ matches = <<>>
    /\ match = <<>>
    /\ sharedrepo = NoRepo
    /\ trace = <<>>
    /\ run = "first"
    /\ previous = NoPrevious

FormIdle ==
    /\ is_bound = FALSE
    /\ fdata = None
    /\ fpc = "idle"
    /\ cleaned_data = <<>>
    /\ ferrors = {}
    /\ layout = <<>>
    /\ configured = <<>>

MaskInit ==
    /\ FormIdle
    /\ ImportIdle
    /\ filemask \in Masks
    /\ mpc = "init"
    /\ mask_regexp = NoRegexp
    /\ name_tok = <<>>
    /\ lang_tok = <<>>
    /\ got_name = NoName

\* parse_options, the mask test
MaskCheck ==
    /\ mpc = "init"
    /\ mpc' = IF MaskOk(filemask) THEN "accepted" ELSE "rejected"
    /\ UNCHANGED <<filemask, mask_regexp, name_tok, lang_tok, got_name>>
    /\ UNCHANGED <<fvars, ivars>>

\* match_regexp, first use: the regular expression is derived and compiled
MaskCompile ==
    /\ mpc = "accepted"
    /\ mask_regexp' = Compile(MaskRegexpSource(filemask))
    /\ mpc' = IF mask_regexp'.ok THEN "compiled" ELSE "re.error"
    /\ UNCHANGED <<filemask, name_tok, lang_tok, got_name>>
    /\ UNCHANGED <<fvars, ivars>>

\* get_name on a path generated from the mask
MaskGetName ==
    /\ mpc = "compiled"
    /\ \E n \in Tokens, l \in Tokens :
         /\ name_tok' = n
         /\ lang_tok' = l
         /\ got_name' = GetName(mask_regexp, PathOf(filemask, n, l))
    /\ mpc' = "matched"
    /\ UNCHANGED <<filemask, mask_regexp>>
    /\ UNCHANGED <<fvars, ivars>>

MaskNext == MaskCheck \/ MaskCompile \/ MaskGetName

SpecMask == MaskInit /\ [][MaskNext]_vars

\* ------------------------------------------------------------------------
\* The add-on forms
\* ------------------------------------------------------------------------
MaskIdle ==
    /\ filemask = <<>>
    /\ mpc = "idle"
    /\ mask_regexp = NoRegexp
    /\ name_tok = <<>>
    /\ lang_tok = <<>>
    /\ got_name = NoName

\* forms.BooleanField.to_python on the value its widget hands over ("True"
\* and "False" also stand for the Python booleans a checkbox hands over,
\* which to_python reads alike)
BooleanToPython(value) == value \notin {"False", "false", "0", None, ""}

\* CheckboxInput.value_from_datadict: a missing key is False, "true" and
\* "false" are read as such, any other string by its truth value
CheckboxValue(raw) ==
    IF raw = None THEN "False"
    ELSE IF raw \in {"true", "True"} THEN "True"
    ELSE IF raw \in {"false", "False"} THEN "False"
    ELSE IF raw # "" THEN "True" ELSE "False"

\* validate_re(match, ('component', 'language')): the expression compiles
\* and has both groups
ValidateRe(source, groups) ==
    LET re == Compile(source) IN re.ok /\ groups \subseteq re.groupindex

FILE_FORMAT_CHOICES == {"auto", "po"}

\* Form._clean_fields for the discovery form: every field is cleaned in the
\* order of declaration; a field that fails gets an error and no entry in
\* cleaned_data.
CleanFields(data) ==
    LET match_ok == /\ data.match # <<>>
                    /\ ValidateRe(data.match, {"component", "language"})
        format_ok == data.file_format \in FILE_FORMAT_CHOICES
        name_ok == data.name_template # <<>> /\ data.name_template_renders
        base_ok == data.base_file_template_renders
        good == (IF match_ok THEN {"match"} ELSE {})
                \cup (IF format_ok THEN {"file_format"} ELSE {})
                \cup (IF name_ok THEN {"name_template"} ELSE {})
                \cup (IF base_ok THEN {"base_file_template"} ELSE {})
        value(f) ==
            CASE f = "match" -> data.match
              [] f = "file_format" -> data.file_format
              [] f = "name_template" -> data.name_template
              [] f = "base_file_template" -> data.base_file_template
              [] f = "remove" -> BooleanToPython(CheckboxValue(data.remove))
              [] f = "confirm" -> BooleanToPython(CheckboxValue(data.confirm))
              [] OTHER -> BooleanToPython(data.preview)
        keys == good \cup {"remove", "confirm", "preview"}
    IN  [cleaned_data |-> [f \in keys |-> value(f)],
         errors |-> {"match", "file_format", "name_template",
                     "base_file_template"} \ good]

\* DiscoveryForm.clean with a slip: show_preview is taken after the flags
\* have been reset
DiscoveryClean_ShowAfter(cd) ==
    IF cd["preview"]
    THEN IF ~cd["confirm"]
         THEN [cleaned_data |-> ("show_preview" :> cd["preview"]) @@ cd,
               raised |-> TRUE]
         ELSE [cleaned_data |-> ("show_preview" :> FALSE) @@
                                [cd EXCEPT !["preview"] = FALSE,
                                           !["confirm"] = FALSE],
               raised |-> FALSE]
    ELSE [cleaned_data |-> ("show_preview" :> TRUE) @@
                           [cd EXCEPT !["preview"] = TRUE, !["confirm"] = FALSE],
          raised |-> FALSE]

\* DiscoveryForm.clean: cleaned_data as the method leaves it, and whether it
\* raised the ValidationError
DiscoveryClean(cd) ==
    LET cd1 == ("show_preview" :> cd["preview"]) @@ cd
    IN  IF cd1["preview"]
        THEN IF ~cd1["confirm"]
             THEN [cleaned_data |-> cd1, raised |-> TRUE]
             ELSE [cleaned_data |-> [cd1 EXCEPT !["preview"] = FALSE,
                                                !["confirm"] = FALSE],
                   raised |-> FALSE]
        ELSE [cleaned_data |-> [cd1 EXCEPT !["preview"] = TRUE,
                                           !["confirm"] = FALSE],
              raised |-> FALSE]

\* Form.full_clean: the fields, then clean(); an error raised by clean() is
\* recorded under "__all__" and cleaned_data is kept
FullClean(data) ==
    LET fields == CleanFields(data)
        form == DiscoveryClean(fields.cleaned_data)
    IN  [cleaned_data |-> form.cleaned_data,
         errors |-> fields.errors \cup (IF form.raised THEN {"__all__"} ELSE {})]

BaseLayout ==
    <<"match", "file_format", "name_template", "base_file_template", "remove",
      "preview", "addons/discovery_help.html">>

\* BaseAddonForm.save with a slip: a preview is not handed to the add-on
Save_SkipPreview(cd, calls) == IF cd["preview"] THEN calls ELSE Append(calls, cd)

\* BaseAddonForm.save: addon.configure(cleaned_data); the result is the list
\* of calls the add-on has received
Save(cd, calls) == Append(calls, cd)

IsValid == is_bound /\ ferrors = {}

MatchInputs ==
    { <<>>,
      <<"(?P<component>", ".", "*", ")", "/", "(?P<language>", ".", "*", ")">>,
      <<"(?P<language>", ".", "*", ")", "/", ".", "*">>,
      <<"(">> }
PreviewRaw == {None, "", "True", "False", "on", "0"}
ConfirmRaw == {None, "on", "true", "false"}

Submissions ==
    [match : MatchInputs,
     file_format : {"auto", "bogus"},
     name_template : {<<>>, <<"x">>},
     name_template_renders : BOOLEAN,
     base_file_template : {<<>>},
     base_file_template_renders : BOOLEAN,
     remove : {None, "on"},
     confirm : ConfirmRaw,
     preview : PreviewRaw]

NoData == CHOOSE d \in Submissions : TRUE

FormInit ==
    /\ MaskIdle
    /\ ImportIdle
    /\ is_bound \in BOOLEAN
    /\ fdata \in Submissions
    /\ ~is_bound => fdata = NoData
    /\ fpc = "new"
    /\ cleaned_data = <<>>
    /\ ferrors = {}
    /\ layout = <<>>
    /\ configured = <<>>

\* DiscoveryForm.__init__: the layout; for a bound form the validation, and
\* the confirmation box and the preview on top when show_preview is set
FormConstruct ==
    /\ fpc = "new"
    /\ IF ~is_bound
       THEN /\ layout' = BaseLayout
            /\ UNCHANGED <<cleaned_data, ferrors>>
       ELSE LET r == FullClean(fdata) IN
            /\ cleaned_data' = r.cleaned_data
            /\ ferrors' = r.errors
            /\ layout' = IF r.cleaned_data["show_preview"]
                         THEN <<"addons/discovery_preview.html", "confirm">>
                              \o BaseLayout
                         ELSE BaseLayout
    /\ fpc' = "constructed"
    /\ UNCHANGED <<is_bound, fdata, configured>>
    /\ UNCHANGED <<mvars, ivars>>

\* The handler of the request: a form that validates is saved
HandleSave ==
    /\ fpc = "constructed"
    /\ IsValid
    /\ configured' = Save(cleaned_data, configured)
    /\ fpc' = "saved"
    /\ UNCHANGED <<is_bound, fdata, cleaned_data, ferrors, layout>>
    /\ UNCHANGED <<mvars, ivars>>

\* The handler of the request: a form that does not validate is shown again
HandleInvalid ==
    /\ fpc = "constructed"
    /\ ~IsValid
    /\ fpc' = "shown"
    /\ UNCHANGED <<is_bound, fdata, cleaned_data, ferrors, layout, configured>>
    /\ UNCHANGED <<mvars, ivars>>

FormNext == FormConstruct \/ HandleSave \/ HandleInvalid

SpecForm == FormInit /\ [][FormNext]_vars

\* ------------------------------------------------------------------------
\* The import command: names, slugs and the scan of the checkout
\* ------------------------------------------------------------------------
\* Field lengths of SubProject.name and SubProject.slug, scaled down so that
\* the slicing of names and slugs acts on the short names of the model.
NameLen == 5
SlugLen == 5

\* range(1, 1000) of find_usable_slug
SlugRangeEnd == 1000

\* code points, for the order sorted() puts names in
Ord(c) ==
    CASE c = " " -> 32 [] c = "%" -> 37 [] c = "-" -> 45 [] c = "." -> 46
      [] c = "/" -> 47 [] c \in Digits -> 48 [] c = "A" -> 65 [] c = "B" -> 66
      [] c = "_" -> 95 [] c = "a" -> 97 [] c = "b" -> 98 [] c = "c" -> 99
      [] c = "d" -> 100 [] c = "e" -> 101 [] c = "g" -> 103 [] c = "l" -> 108
      [] c = "n" -> 110 [] c = "o" -> 111 [] c = "q" -> 113 [] c = "s" -> 115
      [] c = "x" -> 120 [] OTHER -> 122

RECURSIVE StrLess(_, _)
StrLess(a, b) ==
    IF b = <<>> THEN FALSE
    ELSE IF a = <<>> THEN TRUE
    ELSE IF Head(a) = Head(b) THEN StrLess(Tail(a), Tail(b))
    ELSE Ord(Head(a)) < Ord(Head(b))

\* sorted(names), ascending
RECURSIVE Sorted(_)
Sorted(S) ==
    IF S = {} THEN <<>>
    ELSE LET m == CHOOSE x \in S : \A y \in S \ {x} : StrLess(x, y)
         IN  <<m>> \o Sorted(S \ {m})

IsSlugChar(c) == c \in Alnum \cup {"_", " ", "-"}

RECURSIVE Strip(_)
Strip(s) ==
    IF s = <<>> THEN s
    ELSE IF Head(s) = " " THEN Strip(Tail(s))
    ELSE IF s[Len(s)] = " " THEN Strip(SubSeq(s, 1, Len(s) - 1))
    ELSE s

Lower(c) == CASE c = "A" -> "a" [] c = "B" -> "b" [] OTHER -> c

RECURSIVE Collapse(_, _)
Collapse(s, in_run) ==
    IF s = <<>> THEN <<>>
    ELSE IF Head(s) \in {"-", " "}
         THEN (IF in_run THEN <<>> ELSE <<"-">>) \o Collapse(Tail(s), TRUE)
         ELSE <<Head(s)>> \o Collapse(Tail(s), FALSE)

\* django.utils.text.slugify: characters other than word characters, blanks
\* and hyphens are dropped, the ends stripped of blanks, the text lowered and
\* every run of blanks and hyphens made one hyphen.
Slugify(value) ==
    LET kept == Strip(SelectSeq(value, IsSlugChar))
        low == [i \in DOMAIN kept |-> Lower(kept[i])]
    IN  Collapse(low, FALSE)

\* format_string
FormatString(template, m) ==
    IF Contains(template, <<"%", "s">>)
    THEN Replace(template, <<"%", "s">>, m, -1)
    ELSE template

DigitChars == <<"0", "1", "2", "3", "4", "5", "6", "7", "8", "9">>

\* '{0} {1:03d}'.format(base, i), for i < 1000
Numbered(base, i) ==
    base \o <<" ", DigitChars[(i \div 100) + 1], DigitChars[((i \div 10) % 10) + 1],
              DigitChars[(i % 10) + 1]>>

\* SubProject.objects.filter(Q(name=name) | Q(slug=slug), project=project).exists()
NameOrSlugExists(comps, name, slug) ==
    \E c \in comps : c.name = name \/ c.slug = slug

\* find_usable_slug with a slip: only the name is looked up
RECURSIVE ScanSlug_NameOnly(_, _, _)
ScanSlug_NameOnly(base, i, comps) ==
    IF i >= SlugRangeEnd THEN [found |-> FALSE, name |-> <<>>, slug |-> <<>>]
    ELSE LET newname == Numbered(base, i)
             slug == Slugify(newname)
         IN  IF ~\E c \in comps : c.name = newname
             THEN [found |-> TRUE, name |-> newname, slug |-> slug]
             ELSE ScanSlug_NameOnly(base, i + 1, comps)

\* the loop of find_usable_slug, from number i on
RECURSIVE ScanSlug(_, _, _)
ScanSlug(base, i, comps) ==
    IF i >= SlugRangeEnd THEN [found |-> FALSE, name |-> <<>>, slug |-> <<>>]
    ELSE LET newname == Numbered(base, i)
             slug == Slugify(newname)
         IN  IF ~NameOrSlugExists(comps, newname, slug)
             THEN [found |-> TRUE, name |-> newname, slug |-> slug]
             ELSE ScanSlug(base, i + 1, comps)

FindUsableSlug_NameOnly(name, slug_len, comps) ==
    ScanSlug_NameOnly(Prefix(name, slug_len - 4), 1, comps)

\* find_usable_slug: found is FALSE when it raises the CommandError
FindUsableSlug(name, slug_len, comps) ==
    ScanSlug(Prefix(name, slug_len - 4), 1, comps)

\* glob on one path: "*" and "?" do not reach across a "/"
RECURSIVE GlobMatch(_, _)
GlobMatch(pat, s) ==
    IF pat = <<>> THEN s = <<>>
    ELSE IF Head(pat) = "*"
         THEN \/ GlobMatch(Tail(pat), s)
              \/ s # <<>> /\ Head(s) # "/" /\ GlobMatch(pat, Tail(s))
    ELSE IF Head(pat) = "?"
         THEN s # <<>> /\ Head(s) # "/" /\ GlobMatch(Tail(pat), Tail(s))
    ELSE s # <<>> /\ Head(s) = Head(pat) /\ GlobMatch(Tail(pat), Tail(s))

\* get_matching_files: the paths of the checkout the mask matches
GetMatchingFiles(checkout, mask) == {f \in checkout : GlobMatch(mask, f)}

\* the match_regexp property: the compiled --component-regexp when there is
\* one, the expression derived from the mask otherwise
MatchRegexp(compiled, mask) ==
    IF compiled.ok THEN compiled ELSE Compile(MaskRegexpSource(mask))

Languages == {<<"c", "s">>, <<"d", "e">>}

\* the names and languages get_name finds in the matched files
NamesAndLangs(re, found) ==
    LET got == {GetName(re, f) : f \in found}
        kept == {g \in got : g.name # None /\ g.name # <<>>}
    IN  [names |-> {g.name : g \in kept}, langs |-> {g.language : g \in kept}]

\* get_matching_subprojects with a slip: the languages are not looked up
GetMatchingSubprojects_NoLanguages(checkout, mask, compiled) ==
    LET found == GetMatchingFiles(checkout, mask)
        re == MatchRegexp(compiled, mask)
        nl == NamesAndLangs(re, found)
    IN  IF found = {}
        THEN [error |-> "Your mask did not match any files!", names |-> <<>>]
        ELSE IF ~re.ok THEN [error |-> "re.error", names |-> <<>>]
        ELSE [error |-> "", names |-> Sorted(nl.names)]

\* get_matching_subprojects: the sorted names, or the error it ends with
\* ("re.error" is the exception of re.compile, which nothing catches)
GetMatchingSubprojects(checkout, mask, compiled) ==
    LET found == GetMatchingFiles(checkout, mask)
        re == MatchRegexp(compiled, mask)
        nl == NamesAndLangs(re, found)
    IN  IF found = {}
        THEN [error |-> "Your mask did not match any files!", names |-> <<>>]
        ELSE IF ~re.ok THEN [error |-> "re.error", names |-> <<>>]
        ELSE IF nl.langs \cap Languages = {}
        THEN [error |-> "None of matched languages exists", names |-> <<>>]
        ELSE [error |-> "", names |-> Sorted(nl.names)]

FILE_FORMATS == {"auto", "po"}
VCS_REGISTRY == {"git"}

\* parse_options with a slip: the named groups are not checked
ParseOptionsResult_NoGroups(o) ==
    LET given == o.component_regexp # <<>>
        re == Compile(o.component_regexp)
    IN  [component_re |-> IF given /\ re.ok THEN re ELSE NoRegexp,
         error |->
            IF given /\ ~re.ok THEN "Failed to compile regular expression"
            ELSE IF o.file_format \notin FILE_FORMATS THEN "Invalid file format"
            ELSE IF o.vcs \notin VCS_REGISTRY THEN "Invalid vcs"
            ELSE IF ~MaskOk(o.filemask) THEN "You need to specify double wildcard"
            ELSE ""]

\* parse_options: the compiled --component-regexp and the CommandError, if any
ParseOptionsResult(o) ==
    LET given == o.component_regexp # <<>>
        re == Compile(o.component_regexp)
    IN  [component_re |-> IF given /\ re.ok THEN re ELSE NoRegexp,
         error |->
            IF given /\ ~re.ok THEN "Failed to compile regular expression"
            ELSE IF given /\ ~({"name", "language"} \subseteq re.groupindex)
            THEN "Component regular expression lacks named group"
            ELSE IF o.file_format \notin FILE_FORMATS THEN "Invalid file format"
            ELSE IF o.vcs \notin VCS_REGISTRY THEN "Invalid vcs"
            ELSE IF ~MaskOk(o.filemask) THEN "You need to specify double wildcard"
            ELSE ""]

\* 'weblate://{0}/{1}'.format(project.slug, slug)
RepoLink(project, slug) == [link |-> TRUE, project |-> project, slug |-> slug]

\* is_repo_link
IsRepoLink(repo) == repo.link

\* the name and the slug handle and import_initial give a match
NameOf(o, m) == Prefix(FormatString(o.name_template, m), NameLen)
SlugOf(name) == Prefix(Slugify(name), SlugLen)

\* a record stored under the slug of the match, not under the slug that was
\* looked up
NewComponent_MatchSlug(o, name, slug, repo, m) ==
    [name |-> name, slug |-> Slugify(m), repo |-> repo,
     filemask |-> Replace(o.filemask, <<"*", "*">>, m, -1)]

\* the record SubProject.objects.create stores
NewComponent(o, name, slug, repo, m) ==
    [name |-> name, slug |-> slug, repo |-> repo,
     filemask |-> Replace(o.filemask, <<"*", "*">>, m, -1)]

Call(op, arg) == [op |-> op, arg |-> arg]

\* ------------------------------------------------------------------------
\* The import command: the run
\* ------------------------------------------------------------------------
Url == [link |-> FALSE, project |-> "", slug |-> <<"g", "i", "t">>]

ImportMasks ==
    { <<"*", "*", "/", "*">>,
      <<"*", "/", "*", "*">>,
      <<"a", "/", "*">>,
      <<"*", "*", "/", "*", "*", "/", "*">> }

RegexpInputs ==
    { <<>>,
      <<"(?P<name>", ".", "*", ")", "/", "(?P<language>", ".", "*", ")">>,
      <<"(?P<name>", ".", "*", ")", "/", ".", "*">>,
      <<".", "*", "/", "(?P<language>", ".", "*", ")">>,
      <<"(">> }

Runs ==
    [filemask : ImportMasks,
     component_regexp : RegexpInputs,
     main_component : {<<>>, <<"a">>, <<"z">>},
     name_template : {<<"%", "s">>, <<"l", "o", "n", "g", "-", "%", "s">>},
     duplicates : BOOLEAN,
     repo : {Url, RepoLink("p", <<"a">>), RepoLink("p", <<"n", "o">>)},
     project : {"p", "q"},
     file_format : {"auto", "bogus"},
     vcs : {"git", "bogus"}]

Projects == {"p"}

Existing(name, slug) ==
    [name |-> name, slug |-> slug, repo |-> Url, filemask |-> <<"*">>]

\* what the project holds before the run: no two components of a project
\* share a name or a slug
Stores ==
    { {},
      {Existing(<<"a">>, <<"a">>)},
      {Existing(<<"b">>, <<"z">>)},
      {Existing(<<"z">>, <<"b">>)},
      {Existing(<<"a">>, <<"a">>), Existing(<<"a", " ", "0", "0", "1">>, <<"a", "-", "0", "0", "1">>)},
      {Existing(<<"a">>, <<"a">>), Existing(<<"q">>, <<"a", "-", "0", "0", "1">>)} }

\* what a checkout may hold
Checkouts ==
    { {},
      {<<"a", "/", "c", "s">>, <<"b", "/", "c", "s">>, <<"b", "/", "d", "e">>},
      {<<"a", "/", "c", "s">>, <<"A", "/", "c", "s">>, <<"b", "/", "x", "x">>},
      {<<"a", "/", "x", "x">>},
      {<<"c", "s", "/", "a">>, <<"d", "e", "/", "a">>, <<"c", "s", "/", "b">>},
      {<<"a", "/", "b", "/", "c", "s">>} }

Init ==
    /\ MaskIdle
    /\ FormIdle
    /\ options \in Runs
    /\ components \in Stores
    /\ before = components
    /\ files = {}
    /\ pc = "start"
    /\ error = ""
    /\ workdir = "none"
    /\ component_re = NoRegexp
    /\ matches = <<>>
    /\ match = <<>>
    /\ sharedrepo = NoRepo
    /\ trace = <<>>
    /\ run = "first"
    /\ previous = NoPrevious

\* handle: parse_options
ParseOptions ==
    /\ pc = "start"
    /\ LET r == ParseOptionsResult(options) IN
         /\ component_re' = r.component_re
         /\ error' = r.error
         /\ pc' = IF r.error = "" THEN "parsed" ELSE "error"
    /\ UNCHANGED <<options, components, before, files, workdir, matches, match,
                   sharedrepo, trace>>
    /\ UNCHANGED <<mvars, fvars, run, previous>>

\* handle: the project is looked up
GetProject ==
    /\ pc = "parsed"
    /\ trace' = Append(trace, Call("Project.get", <<>>))
    /\ IF options.project \in Projects
       THEN pc' = "project" /\ error' = error
       ELSE pc' = "error" /\ error' = "Project not found"
    /\ UNCHANGED <<options, components, before, files, workdir, component_re,
                   matches, match, sharedrepo>>
    /\ UNCHANGED <<mvars, fvars, run, previous>>

\* handle: the repository is a link, the component it names is looked up and
\* its checkout is the one scanned
GetLinked ==
    /\ pc = "project"
    /\ IsRepoLink(options.repo)
    /\ sharedrepo' = options.repo
    /\ trace' = Append(trace, Call("get_linked", options.repo.slug))
    /\ IF \E c \in components : c.slug = options.repo.slug
       THEN /\ pc' = "linked"
            /\ error' = error
            /\ files' \in Checkouts
       ELSE /\ pc' = "error"
            /\ error' = "Component not found"
            /\ files' = files
    /\ UNCHANGED <<options, components, before, workdir, component_re, matches,
                   match>>
    /\ UNCHANGED <<mvars, fvars, run, previous>>

\* import_initial: checkout_tmp makes the temporary directory, clones into it
\* and checks the branch out
CheckoutTmp ==
    /\ pc = "project"
    /\ ~IsRepoLink(options.repo)
    /\ workdir' = "tmp"
    /\ trace' = trace \o <<Call("mkdtemp", <<>>), Call("clone", <<>>),
                           Call("configure_branch", <<>>)>>
    /\ files' \in Checkouts
    /\ pc' = "checkedout"
    /\ UNCHANGED <<options, components, before, error, component_re, matches,
                   match, sharedrepo>>
    /\ UNCHANGED <<mvars, fvars, run, previous>>

\* import_initial: clone or configure_branch raises in checkout_tmp, after
\* the temporary directory has been made
CheckoutFails ==
    /\ pc = "project"
    /\ ~IsRepoLink(options.repo)
    /\ workdir' = "tmp"
    /\ \E done \in {<<>>, <<Call("configure_branch", <<>>)>>} :
         trace' = trace \o <<Call("mkdtemp", <<>>), Call("clone", <<>>)>> \o done
    /\ pc' = "error"
    /\ error' = "vcs error"
    /\ UNCHANGED <<options, components, before, files, component_re, matches,
                   match, sharedrepo>>
    /\ UNCHANGED <<mvars, fvars, run, previous>>

\* get_matching_subprojects, on the temporary checkout or on the linked one
Scan ==
    /\ pc \in {"checkedout", "linked"}
    /\ LET r == GetMatchingSubprojects(files, options.filemask, component_re) IN
         /\ trace' = Append(trace, Call("glob", <<>>))
         /\ error' = r.error
         /\ matches' = r.names
         /\ pc' = IF r.error # "" THEN "error"
                  ELSE IF pc = "checkedout" THEN "scanned" ELSE "loop"
    /\ UNCHANGED <<options, components, before, files, workdir, component_re,
                   match, sharedrepo>>
    /\ UNCHANGED <<mvars, fvars, run, previous>>

\* matches.remove(x)
RECURSIVE Remove(_, _)
Remove(list, x) ==
    IF list = <<>> THEN list
    ELSE IF Head(list) = x THEN Tail(list)
    ELSE <<Head(list)>> \o Remove(Tail(list), x)

InList(list, x) == \E i \in DOMAIN list : list[i] = x

\* import_initial reading the main match without taking it off the list
MainMatch_KeepsMain(o, list) ==
    IF o.main_component # <<>>
    THEN [match |-> o.main_component, rest |-> list]
    ELSE [match |-> list[Len(list)], rest |-> list]

\* import_initial: the match that becomes the main component and the matches
\* left, --main-component being among the matches if given
MainMatch(o, list) ==
    IF o.main_component # <<>>
    THEN [match |-> o.main_component, rest |-> Remove(list, o.main_component)]
    ELSE [match |-> list[Len(list)], rest |-> SubSeq(list, 1, Len(list) - 1)]

\* import_initial, after the scan: the main component
CreateMain ==
    /\ pc = "scanned"
    /\ IF options.main_component # <<>> /\ ~InList(matches, options.main_component)
       THEN /\ pc' = "error"
            /\ error' = "Specified --main-component was not found in matches!"
            /\ UNCHANGED <<components, workdir, matches, match, sharedrepo, trace>>
       ELSE LET main == MainMatch(options, matches)
                name == NameOf(options, main.match)
                slug == SlugOf(name)
            IN  /\ match' = main.match
                /\ matches' = main.rest
                /\ sharedrepo' = RepoLink(options.project, slug)
                /\ pc' = "loop"
                /\ error' = error
                /\ IF \E c \in components : c.slug = slug
                   THEN /\ workdir' = "removed"
                        /\ trace' = Append(trace, Call("rmtree", <<>>))
                        /\ components' = components
                   ELSE /\ workdir' = "renamed"
                        /\ trace' = trace \o <<Call("rename", slug),
                                               Call("create", name)>>
                        /\ components' = components \cup
                              {NewComponent(options, name, slug, options.repo,
                                            main.match)}
    /\ UNCHANGED <<options, before, files, component_re>>
    /\ UNCHANGED <<mvars, fvars, run, previous>>

\* handle: one round of the loop over the remaining matches
CreateRemaining ==
    /\ pc = "loop"
    /\ matches # <<>>
    /\ LET m == Head(matches)
           name == NameOf(options, m)
           slug == SlugOf(name)
           exists == NameOrSlugExists(components, name, slug)
           usable == FindUsableSlug(name, SlugLen, components)
       IN  /\ match' = m
           /\ IF exists /\ ~options.duplicates
              THEN /\ matches' = Tail(matches)
                   /\ trace' = Append(trace, Call("skip", name))
                   /\ UNCHANGED <<components, pc, error>>
              ELSE IF exists /\ ~usable.found
              THEN /\ pc' = "error"
                   /\ error' = "Failed to find suitable name"
                   /\ UNCHANGED <<components, matches, trace>>
              ELSE LET n == IF exists THEN usable.name ELSE name
                       sl == IF exists THEN usable.slug ELSE slug
                   IN  /\ matches' = Tail(matches)
                       /\ trace' = Append(trace, Call("create", n))
                       /\ components' = components \cup
                             {NewComponent(options, n, sl, sharedrepo, m)}
                       /\ UNCHANGED <<pc, error>>
    /\ UNCHANGED <<options, before, files, workdir, component_re, sharedrepo>>
    /\ UNCHANGED <<mvars, fvars, run, previous>>

\* handle returns
Finish ==
    /\ pc = "loop"
    /\ matches = <<>>
    /\ pc' = "done"
    /\ UNCHANGED <<options, components, before, files, error, workdir,
                   component_re, matches, match, sharedrepo, trace>>
    /\ UNCHANGED <<mvars, fvars, run, previous>>

\* handle is entered again: the command is run a second time with the same
\* arguments, on the project as the run before left it
Rerun ==
    /\ pc \in {"done", "error"}
    /\ run = "first"
    /\ run' = "again"
    /\ previous' = [files |-> files, components |-> components, pc |-> pc]
    /\ before' = components
    /\ files' = {}
    /\ pc' = "start"
    /\ error' = ""
    /\ workdir' = "none"
    /\ component_re' = NoRegexp
    /\ matches' = <<>>
    /\ match' = <<>>
    /\ sharedrepo' = NoRepo
    /\ trace' = <<>>
    /\ UNCHANGED <<options, components>>
    /\ UNCHANGED <<mvars, fvars>>

Next ==
    \/ ParseOptions
    \/ GetProject
    \/ GetLinked
    \/ CheckoutTmp
    \/ CheckoutFails
    \/ Scan
    \/ CreateMain
    \/ CreateRemaining
    \/ Finish
    \/ Rerun

Spec == Init /\ [][Next]_vars

\* ------------------------------------------------------------------------
\* Properties of the mask test and of the pattern translator
\* ------------------------------------------------------------------------
Double == <<"*", "*">>

\* the mask holds exactly one "**" ...
OneDouble(mask) == Count(mask, Double) = 1
\* ... and at least one "*" outside it
StarOutside(mask) == Contains(Replace(mask, Double, <<>>, -1), <<"*">>)
\* the mask holds no other glob metacharacter
LiteralElsewhere(mask) == \A i \in DOMAIN mask : mask[i] # "?"

SubStrs(s) == {SubSeq(s, i, j) : i \in 1..(Len(s) + 1), j \in 0..Len(s)}

\* every (name, language) pair that generates the path from the mask
Decomps(mask, path) ==
    {d \in SubStrs(path) \X SubStrs(path) : PathOf(mask, d[1], d[2]) = path}

FirstIndex(s, sub) ==
    LET at == {i \in 1..Len(s) : StartsWith(Suffix(s, i - 1), sub)}
    IN  IF at = {} THEN 0 ELSE CHOOSE i \in at : \A j \in at : i <= j

\* the "**" is the first wildcard of the mask
NameFirst(mask) == FirstIndex(mask, Double) = FirstIndex(mask, <<"*">>)

\* C6 (as claimed): parse_options rejects every mask that does not hold
\* exactly one "**" together with at least one "*" outside it.
C6_BadMaskRejected ==
    (mpc # "init" /\ ~(OneDouble(filemask) /\ StarOutside(filemask)))
        => mpc = "rejected"

PreviewFlag == fdata.preview \in {"True", "on"}
ConfirmFlag == fdata.confirm \in {"on", "true"}
\* the form has been validated and no field of it is in error
FieldsValid == fpc # "new" /\ is_bound /\ ferrors \subseteq {"__all__"}

\* C8: with the other fields valid, a submission without the preview flag
\* validates with cleaned preview = true and confirm = false; preview without
\* confirm is a validation error; preview with confirm validates with both
\* flags cleaned to false; show_preview is the submitted preview flag.
C8_TwoPhase ==
    FieldsValid =>
        /\ cleaned_data["show_preview"] = PreviewFlag
        /\ ~PreviewFlag =>
              /\ IsValid
              /\ cleaned_data["preview"] = TRUE
              /\ cleaned_data["confirm"] = FALSE
        /\ (PreviewFlag /\ ~ConfirmFlag) => (~IsValid /\ "__all__" \in ferrors)
        /\ (PreviewFlag /\ ConfirmFlag) =>
              /\ IsValid
              /\ cleaned_data["preview"] = FALSE
              /\ cleaned_data["confirm"] = FALSE

\* C8 witness: a confirmed preview has validated and been saved, the layout
\* showing the preview and the confirmation box.
C8_Witness ==
    /\ fpc = "saved"
    /\ PreviewFlag /\ ConfirmFlag
    /\ cleaned_data["preview"] = FALSE
    /\ Head(layout) = "addons/discovery_preview.html"

Ended == pc \in {"done", "error"}

Called(op) == \E i \in DOMAIN trace : trace[i].op = op

\* C1 (as claimed): a run that made the temporary directory ends with it
\* renamed to the main component's place or removed.
C1_TempDirNeverLeft ==
    (Ended /\ Called("mkdtemp")) => workdir \in {"renamed", "removed"}

\* no two components share a name, no two share a slug
Unique(comps) ==
    \A c, d \in comps : c # d => (c.name # d.name /\ c.slug # d.slug)

\* C3 (as claimed): if names and slugs were unique in the project before the
\* run, they are unique after it.
C3_NamesAndSlugsUnique ==
    (Ended /\ Unique(before)) => Unique(components)

\* the --component-regexp given compiles and lacks a group
LacksGroup ==
    /\ options.component_regexp # <<>>
    /\ Compile(options.component_regexp).ok
    /\ ~({"name", "language"} \subseteq Compile(options.component_regexp).groupindex)

\* C4: a --component-regexp that compiles without the group name or without
\* the group language makes the run abort in parse_options: nothing has been
\* looked up, made, cloned, globbed or created.
C4_BadRegexpAbortsFirst ==
    (LacksGroup /\ pc # "start") =>
        /\ pc = "error"
        /\ error = "Component regular expression lacks named group"
        /\ trace = <<>>
        /\ workdir = "none"
        /\ files = {}
        /\ components = before

\* C4 witness: a run, otherwise in order, aborted for a regexp that has the
\* group name and lacks the group language.
C4_Witness ==
    /\ pc = "error"
    /\ LacksGroup
    /\ "name" \in Compile(options.component_regexp).groupindex
    /\ MaskOk(options.filemask)
    /\ options.project = "p" /\ options.file_format = "auto" /\ options.vcs = "git"

\* the language tokens of the files the mask matches in the checkout
DerivedLangs ==
    NamesAndLangs(MatchRegexp(component_re, options.filemask),
                  GetMatchingFiles(files, options.filemask)).langs

\* C5: once the checkout has been scanned, be it the fresh clone or the
\* linked one, and no language token is the code of a known language, the
\* run has aborted and the components are those of before the run.
C5_NoLanguageAborts ==
    (Called("glob") /\ DerivedLangs \cap Languages = {}) =>
        /\ pc = "error"
        /\ error # ""
        /\ components = before
        /\ ~Called("create")
        /\ (GetMatchingFiles(files, options.filemask) # {}
            /\ MatchRegexp(component_re, options.filemask).ok)
              => error = "None of matched languages exists"

\* C5 witness: a run on a linked repository, in a project that has
\* components, aborted because the tokens found are no languages.
C5_Witness ==
    /\ pc = "error"
    /\ error = "None of matched languages exists"
    /\ IsRepoLink(options.repo)
    /\ DerivedLangs # {}
    /\ components # {}

\* a step that processes the main match, one that processes a remaining match
MainStep == pc = "scanned" /\ pc' = "loop"
LoopStep == pc = "loop" /\ matches # <<>> /\ pc' \in {"loop", "error"}

\* number k is free: neither the numbered name nor its slug is in use
Free(base, k) ==
    LET newname == Numbered(base, k)
    IN  ~\E c \in components : c.name = newname \/ c.slug = Slugify(newname)

\* the rule of C2 for match m: if its name or slug exists, nothing is created
\* by default; with --no-skip-duplicates one component is created, named
\* with the smallest free number (and the run aborts when none is free)
DuplicateRule(m) ==
    LET name == NameOf(options, m)
        slug == SlugOf(name)
        base == Prefix(name, SlugLen - 4)
    IN  NameOrSlugExists(components, name, slug) =>
          IF ~options.duplicates THEN components' = components
          ELSE \/ \E k \in 1..(SlugRangeEnd - 1) :
                    /\ Free(base, k)
                    /\ \A j \in 1..(k - 1) : ~Free(base, j)
                    /\ \E c \in components' :
                         /\ components' = components \cup {c}
                         /\ c \notin components
                         /\ c.name = Numbered(base, k)
                         /\ c.slug = Slugify(Numbered(base, k))
               \/ /\ \A k \in 1..(SlugRangeEnd - 1) : ~Free(base, k)
                  /\ components' = components
                  /\ pc' = "error"

\* C2 (as claimed): the rule holds for every match processed, the main match
\* included.
C2_DuplicateRuleAll ==
    [][/\ MainStep => DuplicateRule(match')
       /\ LoopStep => DuplicateRule(Head(matches))]_vars

\* C2 (amended): the rule holds for every match processed by the loop over
\* the remaining matches; for the main match only the slug is looked up, and
\* when it exists no component is created whatever the options: the
\* temporary checkout is removed and the existing component is referred to.
C2_DuplicateRule ==
    [][/\ LoopStep => DuplicateRule(Head(matches))
       /\ (MainStep /\ \E c \in components :
                          c.slug = SlugOf(NameOf(options, match')))
            => /\ components' = components
               /\ workdir' = "removed"
               /\ sharedrepo' = RepoLink(options.project,
                                         SlugOf(NameOf(options, match')))]_vars

\* C2 witness: with --no-skip-duplicates, a remaining match "a" whose name
\* exists, as does number 001, has been created as "a 002".
C2_Witness ==
    /\ options.duplicates
    /\ match = <<"a">>
    /\ trace # <<>>
    /\ trace[Len(trace)] = Call("create", <<"a", " ", "0", "0", "2">>)
    /\ \E c \in components : c.name = <<"a", " ", "0", "0", "2">>
                             /\ c.slug = <<"a", "-", "0", "0", "2">>
                             /\ c.repo = sharedrepo

\* C10 (as claimed): in a fresh clone the first of the sorted matches becomes
\* the main component unless --main-component names one, which then does, the
\* run aborting when it is not among the matches.
C10_FirstMatchIsMain ==
    [][pc = "scanned" =>
         IF options.main_component = <<>>
         THEN match' = Head(matches)
         ELSE IF InList(matches, options.main_component)
              THEN match' = options.main_component
              ELSE pc' = "error"]_vars

\* the elements of a list; a list that holds none of them twice
Elems(list) == {list[i] : i \in DOMAIN list}
NoDup(list) == Cardinality(Elems(list)) = Len(list)

\* the components a step creates
Created == components' \ components

\* a step that enters the loop from the scan of a linked repository
LinkedStep == pc = "linked" /\ pc' = "loop"

\* C11: the match chosen as main component is taken off the list, which
\* holds every other match once, before the loop; each round of the loop
\* processes the head of the list, drops it and creates at most one
\* component; the run is done only when the list is empty; and every
\* component the loop creates has as repository the back-reference to the
\* main component (project slug and main slug), or the back-reference given
\* as repo argument, never a direct URL.
C11_EachMatchOnce ==
    [][/\ MainStep =>
            /\ InList(matches, match')
            /\ ~InList(matches', match')
            /\ Elems(matches') = Elems(matches) \ {match'}
            /\ NoDup(matches')
            /\ Cardinality(Created) <= 1
            /\ sharedrepo' = RepoLink(options.project,
                                      SlugOf(NameOf(options, match')))
       /\ LinkedStep =>
            /\ NoDup(matches')
            /\ sharedrepo' = options.repo
       /\ LoopStep =>
            /\ match' = Head(matches)
            /\ pc' = "loop" => matches' = Tail(matches)
            /\ Cardinality(Created) <= 1
            /\ sharedrepo' = sharedrepo
            /\ IsRepoLink(options.repo) => sharedrepo = options.repo
            /\ \A c \in Created : c.repo = sharedrepo /\ IsRepoLink(c.repo)
       /\ pc' = "done" => matches = <<>>]_vars

\* C11 witness: a run on a fresh clone is done; the main component was
\* created with the direct URL and the loop created two components, both
\* referring to the main one.
C11_Witness ==
    /\ pc = "done"
    /\ ~IsRepoLink(options.repo)
    /\ workdir = "renamed"
    /\ \E c \in components \ before : c.repo = options.repo
    /\ Cardinality({c \in components \ before :
                       c.repo = sharedrepo /\ IsRepoLink(c.repo)}) >= 2

\* C12: when a run that was done is followed by a run with the same
\* arguments, without --no-skip-duplicates, on a checkout with the same
\* files, the second run creates nothing and the components of the project
\* stay those the first run left.
C12_RerunCreatesNothing ==
    (/\ run = "again"
     /\ previous.pc = "done"
     /\ ~options.duplicates
     /\ files = previous.files)
      => /\ components = previous.components
         /\ ~Called("create")

\* C12 witness: a first run on a fresh clone created the main component and
\* another one; the second run, on the same files, is done: it removed its
\* checkout and skipped the remaining match.
C12_Witness ==
    /\ run = "again"
    /\ pc = "done"
    /\ previous.pc = "done"
    /\ ~options.duplicates
    /\ ~IsRepoLink(options.repo)
    /\ files = previous.files
    /\ Called("rmtree")
    /\ Called("skip")
    /\ \E c, d \in components :
         /\ IsRepoLink(c.repo) /\ ~IsRepoLink(d.repo)
         /\ c.repo = RepoLink(options.project, d.slug)
         /\ d.filemask = Replace(options.filemask, Double, d.name, -1)

====
